---- MODULE Spec2Model ----
(***************************************************************************)
(* Model of the lesson-booking backend (Express + MongoDB).  The sources   *)
(* hold four iterations of the application, each a complete Express app    *)
(* with its own route table:                                               *)
(*   1  src/server.js 1-152          /lessons, /orders, /lessons/:id       *)
(*   2  src/server.js 154-298        the same routes, handle named db      *)
(*   3  src/unnamed/part_000 1-197   the generic /collections CRUD layer   *)
(*   4  src/unnamed/part_000 199-398 /lessons, /order, /order/:id          *)
(* The variable variant says which iteration is running.  A request is     *)
(* handled in one step: every handler issues at most one store operation.  *)
(* JSON values are pairs <<type, n>>; a document is a function from field  *)
(* names to values; a collection is the sequence of its documents in       *)
(* natural (insertion) order.                                              *)
(***************************************************************************)
EXTENDS Integers, Sequences, FiniteSets, TLC

VARIABLES variant, db, colls, nextOid, issued, writes, req, res, ops,
          inflight, applied

vars == <<variant, db, colls, nextOid, issued, writes, req, res, ops,
          inflight, applied>>

(* ---------------------------- bounds ---------------------------------- *)
\* store-generated identifiers handed out in one run
MaxOid == 1
\* successful write requests in one run
MaxWrites == 2
\* clients that each have one update request in flight
MaxClients == 2

(* ---------------------------- values ---------------------------------- *)
Variants == 1..4
CollNames == {"lessons", "orders", "ghost"}

Str(n) == <<"str", n>>
Num(n) == <<"num", n>>
Arr(n) == <<"arr", n>>
Oid(n) == <<"oid", n>>
DateNow == <<"date", 0>>
NoId == <<"none", 0>>

\* JavaScript truthiness of a property value; an absent property is undefined
Truthy(o, f) ==
    /\ f \in DOMAIN o
    /\ o[f] # Str(0)
    /\ o[f] # Num(0)
    /\ o[f] # <<"bool", 0>>
    /\ o[f][1] # "null"

IsArray(o, f) == f \in DOMAIN o /\ o[f][1] = "arr"

EmptyBody == [f \in {} |-> NoId]

\* the emptiness check left out
IsEmptyObject_never(o) == FALSE

\* Object.keys(body).length === 0
IsEmptyObject(o) == DOMAIN o = {}

(* ------------------------- Document Codec ------------------------------ *)
HexChars == {"0","1","2","3","4","5","6","7","8","9",
             "a","b","c","d","e","f","A","B","C","D","E","F"}

HexDigit(ch) ==
    CASE ch = "0" -> 0 [] ch = "1" -> 1 [] ch = "2" -> 2 [] ch = "3" -> 3
      [] ch = "4" -> 4 [] ch = "5" -> 5 [] ch = "6" -> 6 [] ch = "7" -> 7
      [] ch = "8" -> 8 [] ch = "9" -> 9
      [] ch \in {"a", "A"} -> 10 [] ch \in {"b", "B"} -> 11
      [] ch \in {"c", "C"} -> 12 [] ch \in {"d", "D"} -> 13
      [] ch \in {"e", "E"} -> 14 [] ch \in {"f", "F"} -> 15

\* a string of exactly 24 hexadecimal characters
ObjectIdIsValid(s) == Len(s) = 24 /\ \A i \in 1..24 : s[i] \in HexChars

\* value of the digits s[1..n], most significant first
RECURSIVE HexPrefix(_, _)
HexPrefix(s, n) == IF n = 0 THEN 0 ELSE 16 * HexPrefix(s, n - 1) + HexDigit(s[n])

HexValue(s) == HexPrefix(s, Len(s))

\* new ObjectId(s): the 12 bytes the hex string encodes (throws when invalid)
ObjectId(s) == Oid(HexValue(s))

\* wire strings used as :id, as sequences of characters
Hex24(ch) == [i \in 1..24 |-> IF i = 24 THEN ch ELSE "0"]
Limited == <<"l", "i", "m", "i", "t", "e", "d">>
NoSeg == <<>>
WellFormedIds == {Hex24("1"), Hex24("A")}
MalformedIds == {Hex24("g")}
WireIds == WellFormedIds \cup MalformedIds

(* ----------------------------- routing --------------------------------- *)
\* a request: method, first path segment, :collectionName ("" when the path
\* has none), last segment (NoSeg when the path has none), parsed JSON body
Pattern(m, root, name, tail, h) ==
    [method |-> m, root |-> root, name |-> name, tail |-> tail, handler |-> h]

\* the routes of each iteration, in registration order
RouteTable == [v \in Variants |->
    CASE v \in {1, 2} ->
           << Pattern("GET", "lessons", FALSE, "none", "getLessons"),
              Pattern("POST", "orders", FALSE, "none", "postOrders"),
              Pattern("PUT", "lessons", FALSE, "param", "putLessons") >>
      [] v = 3 ->
           << Pattern("GET", "collections", TRUE, "none", "getCollection"),
              Pattern("GET", "collections", TRUE, "limited", "getLimited"),
              Pattern("GET", "collections", TRUE, "param", "getById"),
              Pattern("POST", "collections", TRUE, "none", "postCollection"),
              Pattern("DELETE", "collections", TRUE, "param", "deleteById"),
              Pattern("PUT", "collections", TRUE, "param", "putById") >>
      [] v = 4 ->
           << Pattern("GET", "lessons", FALSE, "none", "getLessons"),
              Pattern("POST", "order", FALSE, "none", "postOrder"),
              Pattern("PUT", "order", FALSE, "param", "putOrder") >>]

Routes(v) == RouteTable[v]

Matches(p, r) ==
    /\ p.method = r.method
    /\ p.root = r.root
    /\ p.name = (r.name # "")
    /\ CASE p.tail = "none" -> r.id = NoSeg
         [] p.tail = "limited" -> r.id = Limited
         [] p.tail = "param" -> r.id # NoSeg

\* Express runs the first registered route that matches
Route(v, r) ==
    LET hits == {i \in 1..Len(Routes(v)) : Matches(Routes(v)[i], r)}
    IN  IF hits = {} THEN "none"
        ELSE Routes(v)[CHOOSE i \in hits : \A j \in hits : i <= j].handler

\* the name the handlers use for the database is bound to the connection:
\* iteration 1 assigns db (server.js:66) and its handlers read db1
HandleBound(v) == v # 1

(* ------------------------------ store ---------------------------------- *)
\* position of the first document of collection c with this _id, 0 if none
IndexOf(c, id) ==
    LET hits == {i \in 1..Len(db[c]) : db[c][i]["_id"] = id}
    IN  IF hits = {} THEN 0 ELSE CHOOSE i \in hits : \A j \in hits : i <= j

\* the update written without $set: the document is replaced by the body
SetFields_replace(doc, set) ==
    [f \in DOMAIN set \cup {"_id"} |-> IF f \in DOMAIN set THEN set[f] ELSE doc[f]]

\* the merge written the wrong way round: a field the document has is kept
SetFields_keepOld(doc, set) ==
    [f \in DOMAIN doc \cup DOMAIN set |-> IF f \in DOMAIN doc THEN doc[f] ELSE set[f]]

\* $set: the named fields take the given values, every other field stays
SetFields(doc, set) ==
    [f \in DOMAIN doc \cup DOMAIN set |-> IF f \in DOMAIN set THEN set[f] ELSE doc[f]]

\* updateOne({_id: id}, {$set: set}) on collection c
UpdateOne(c, id, set) ==
    [i \in 1..Len(db[c]) |-> IF i = IndexOf(c, id) THEN SetFields(db[c][i], set) ELSE db[c][i]]

\* the store refuses an update that would change _id of the matched document
UpdateThrows(c, id, set) ==
    /\ IndexOf(c, id) # 0
    /\ "_id" \in DOMAIN set
    /\ set["_id"] # id

\* the filter ignored: the document removed is the last of the collection
DeleteOne_last(c, id) == SubSeq(db[c], 1, Len(db[c]) - 1)

\* deleteOne({_id: id}) on collection c
DeleteOne(c, id) ==
    LET k == IndexOf(c, id)
    IN  IF k = 0 THEN db[c]
        ELSE [i \in 1..(Len(db[c]) - 1) |-> IF i < k THEN db[c][i] ELSE db[c][i + 1]]

\* insertOne(doc): the driver keeps a supplied _id and generates one otherwise
InsertedId(doc) == IF "_id" \in DOMAIN doc THEN doc["_id"] ELSE Oid(nextOid)

InsertThrows(c, doc) == "_id" \in DOMAIN doc /\ IndexOf(c, doc["_id"]) # 0

InsertOne(c, doc) ==
    Append(db[c], [f \in DOMAIN doc \cup {"_id"} |->
                     IF f = "_id" THEN InsertedId(doc) ELSE doc[f]])

(* ---------------------------- responses -------------------------------- *)
\* status, error text, whether err.message is appended, documents, identifier
Resp(status, error, detail, docs, id) ==
    [status |-> status, error |-> error, detail |-> detail, docs |-> docs, id |-> id]

Ok(status, docs, id) == Resp(status, "", FALSE, docs, id)
Fail(status, error, detail) == Resp(status, error, detail, <<>>, NoId)

(* ------------------------- sort({price: -1}) --------------------------- *)
\* BSON comparison key of the price field: missing < numbers < strings
PriceKey(doc) ==
    IF "price" \notin DOMAIN doc THEN <<0, 0>>
    ELSE IF doc["price"][1] = "num" THEN <<1, doc["price"][2]>>
    ELSE IF doc["price"][1] = "str" THEN <<2, doc["price"][2]>>
    ELSE <<3, doc["price"][2]>>

KeyLess(a, b) == a[1] < b[1] \/ (a[1] = b[1] /\ a[2] < b[2])

\* the sort direction reversed: { price: 1 }
SortBefore_ascending(a, b) == KeyLess(PriceKey(a), PriceKey(b))

\* descending order on the key
SortBefore(a, b) == KeyLess(PriceKey(b), PriceKey(a))

RECURSIVE InsertSorted(_, _)
InsertSorted(doc, s) ==
    IF s = <<>> THEN <<doc>>
    ELSE IF SortBefore(doc, Head(s)) THEN <<doc>> \o s
    ELSE <<Head(s)>> \o InsertSorted(doc, Tail(s))

RECURSIVE SortByPrice(_)
SortByPrice(s) ==
    IF s = <<>> THEN <<>>
    ELSE InsertSorted(s[Len(s)], SortByPrice(SubSeq(s, 1, Len(s) - 1)))

LimitCount == 3

\* limit(n)
Limit(s, n) == SubSeq(s, 1, IF Len(s) < n THEN Len(s) ELSE n)

\* the order in which the store scans a collection: forwards or backwards
Scan(s, backwards) ==
    IF backwards THEN [i \in 1..Len(s) |-> s[Len(s) + 1 - i]] ELSE s

\* find({}).limit(3).sort({price: -1}): the cursor sorts, then limits; the
\* order among documents of equal price follows the scan the store chose
FindLimited(c, backwards) ==
    Limit(SortByPrice(Scan(db[c], backwards)), LimitCount)

(* --------------------------- request bodies ---------------------------- *)
FieldValues(f) ==
    CASE f = "_id" -> {Str(7)}
      [] f = "subject" -> {Str(1), Str(2)}
      [] f = "price" -> {Num(1), Num(3)}
      [] f = "spaces" -> {Num(0 - 1), Num(0), Num(3)}
      [] f = "name" -> {Str(0), Str(1)}
      [] f = "phone" -> {Str(1)}
      [] f = "address" -> {Str(0), Str(1)}
      [] f = "lessonIDs" -> {Arr(0), Arr(1)}
      [] f = "lessons" -> {Str(1), Arr(1), Arr(2)}

AllValues ==
    UNION {FieldValues(f) : f \in {"_id", "subject", "price", "spaces", "name",
                                   "phone", "address", "lessonIDs", "lessons"}}

\* the JSON objects whose keys are among F
Bodies(F) ==
    UNION {{b \in [S -> AllValues] : \A f \in S : b[f] \in FieldValues(f)} : S \in SUBSET F}

\* bodies sent to the generic routes and to PUT /lessons/:id: the empty
\* object, a partial update of one field, a document carrying an _id
DocBodies ==
    {b \in Bodies({"_id", "price", "spaces"}) :
        /\ "price" \in DOMAIN b => b["price"] = Num(3)
        /\ "spaces" \in DOMAIN b => b["spaces"] = Num(0 - 1)
        /\ DOMAIN b \in {{}, {"spaces"}, {"_id", "price"}}}

\* number of the fields F that a body lacks or holds a falsy value for
Defects(b, F) == Cardinality({f \in F : ~Truthy(b, f)})

\* bodies sent to POST /orders: complete ones, ones with a single field
\* absent or falsy, one carrying an _id, and the empty object
OrdersBodies ==
    {b \in Bodies({"_id", "name", "phone", "lessonIDs", "spaces"}) :
        /\ "spaces" \in DOMAIN b => b["spaces"] # Num(0 - 1)
        /\ "lessonIDs" \in DOMAIN b => b["lessonIDs"] = Arr(1)
        /\ Defects(b, {"name", "phone", "lessonIDs", "spaces"}) <= 1
        /\ "_id" \in DOMAIN b => Defects(b, {"name", "phone", "lessonIDs", "spaces"}) = 0}
    \cup {EmptyBody}

\* bodies sent to POST /order and PUT /order/:id, chosen the same way;
\* lessons may be a string instead of an array
OrderBodies ==
    {b \in Bodies({"_id", "name", "phone", "address", "lessons"}) :
        /\ "address" \in DOMAIN b => b["address"] = Str(1)
        /\ Defects(b, {"name", "phone", "address"}) + (IF IsArray(b, "lessons") THEN 0 ELSE 1) <= 1
        /\ "_id" \in DOMAIN b =>
              Defects(b, {"name", "phone", "address"}) = 0 /\ IsArray(b, "lessons")
                 /\ b["lessons"] = Arr(1)}
    \cup {EmptyBody}

Request(m, root, name, id, body) ==
    [method |-> m, root |-> root, name |-> name, id |-> id, body |-> body]

\* requests sent to paths that some iteration does not serve
ProbeRequests ==
    {Request(m, "collections", "ghost", id, EmptyBody) :
        m \in {"GET", "POST", "PUT", "DELETE"}, id \in {NoSeg, Hex24("A")}}
    \cup {Request("GET", "lessons", "", NoSeg, EmptyBody),
          Request("POST", "orders", "", NoSeg, EmptyBody),
          Request("POST", "order", "", NoSeg, EmptyBody)}

\* an update request between its arrival and its response: the handler
\* that took it, its parameters, and what updateOne reported once the store
\* has executed it
Pending(phase, handler, name, id, body, threw, matched, modified, status) ==
    [phase |-> phase, handler |-> handler, name |-> name, id |-> id, body |-> body,
     threw |-> threw, matched |-> matched, modified |-> modified, status |-> status]

Clients == 1..MaxClients

Idle == Pending("idle", "", "", NoSeg, EmptyBody, FALSE, 0, 0, 0)

\* bodies of concurrent updates: the empty object and single fields, two of
\* them naming the same field with different values
ConcBodies ==
    {b \in Bodies({"price", "spaces"}) :
        /\ Cardinality(DOMAIN b) <= 1
        /\ "price" \in DOMAIN b => b["price"] = Num(3)
        /\ "spaces" \in DOMAIN b => b["spaces"] # Num(0)}

(* ----------------------------- initial state --------------------------- *)
Lesson(id, subject, price, spaces) ==
    [f \in {"_id", "subject", "price", "spaces"} |->
        CASE f = "_id" -> Oid(id) [] f = "subject" -> Str(subject)
          [] f = "price" -> Num(price) [] f = "spaces" -> Num(spaces)]

InitialLessons == <<Lesson(10, 1, 1, 5), Lesson(11, 2, 3, 0), Lesson(12, 2, 1, 2)>>

Init ==
    /\ variant \in Variants
    /\ db = [c \in CollNames |-> IF c = "lessons" THEN InitialLessons ELSE <<>>]
    /\ colls = {"lessons", "orders"}
    /\ nextOid = 1
    /\ issued = {Oid(10), Oid(11), Oid(12)}
    /\ writes = 0
    /\ req = Request("GET", "", "", NoSeg, EmptyBody)
    /\ res = Ok(0, <<>>, NoId)
    /\ ops = {}
    /\ inflight = [c \in Clients |-> Idle]
    /\ applied = <<>>

(* ------------------------------ handlers ------------------------------- *)
Reply(r, rs, o) ==
    req' = r /\ res' = rs /\ ops' = o /\ UNCHANGED <<inflight, applied>>

NoWrite == UNCHANGED <<db, colls, nextOid, issued, writes>>

\* one more write fits the bounds of the run
CanWrite == writes < MaxWrites

\* app.param("collectionName"): "next" when the request goes on to its route
collectionNameParam(v, name) ==
    IF v = 3 THEN "next"
    ELSE IF ~HandleBound(v) THEN "error"
    ELSE IF name \notin colls THEN "missing"
    ELSE "next"

ParamOps(v) == IF v = 3 \/ ~HandleBound(v) THEN {} ELSE {"listCollections"}

ParamReply(v, name) ==
    IF collectionNameParam(v, name) = "error"
    THEN Fail(500, "Internal server error.", FALSE)
    ELSE Fail(404, "Collection does not exist.", FALSE)

\* the length check left out: an empty array is sent with 200
FindReply_always200(results) == Ok(200, results, NoId)

\* results.length === 0 is answered 404, anything else is sent as the array
FindReply(results) ==
    IF Len(results) = 0
    THEN Fail(404, "No documents found in the collection.", FALSE)
    ELSE Ok(200, results, NoId)

\* GET /collections/:collectionName
GetCollection ==
    \E name \in CollNames :
      LET r == Request("GET", "collections", name, NoSeg, EmptyBody) IN
      /\ Route(variant, r) = "getCollection"
      /\ IF collectionNameParam(variant, name) # "next"
         THEN Reply(r, ParamReply(variant, name), ParamOps(variant))
         ELSE Reply(r, FindReply(db[name]), ParamOps(variant) \cup {"find"})
      /\ NoWrite
      /\ UNCHANGED variant

\* GET /collections/:collectionName/limited
GetLimited ==
    \E name \in CollNames :
      LET r == Request("GET", "collections", name, Limited, EmptyBody) IN
      /\ Route(variant, r) = "getLimited"
      /\ IF collectionNameParam(variant, name) # "next"
         THEN Reply(r, ParamReply(variant, name), ParamOps(variant))
         ELSE \E backwards \in BOOLEAN :
                Reply(r, FindReply(FindLimited(name, backwards)),
                      ParamOps(variant) \cup {"find"})
      /\ NoWrite
      /\ UNCHANGED variant

\* GET /collections/:collectionName/:id
GetById ==
    \E name \in CollNames, id \in WireIds \cup {Limited} :
      LET r == Request("GET", "collections", name, id, EmptyBody) IN
      /\ Route(variant, r) = "getById"
      /\ IF collectionNameParam(variant, name) # "next"
         THEN Reply(r, ParamReply(variant, name), ParamOps(variant))
         ELSE IF ~ObjectIdIsValid(id)
         THEN Reply(r, Fail(500, "Error fetching document by ID", TRUE), ParamOps(variant))
         ELSE LET k == IndexOf(name, ObjectId(id)) IN
              IF k = 0
              THEN Reply(r, Fail(404, "Document not found in collection.", FALSE),
                         ParamOps(variant) \cup {"findOne"})
              ELSE Reply(r, Ok(200, <<db[name][k]>>, NoId),
                         ParamOps(variant) \cup {"findOne"})
      /\ NoWrite
      /\ UNCHANGED variant

\* POST /collections/:collectionName
PostCollection ==
    \E name \in CollNames, body \in DocBodies :
      LET r == Request("POST", "collections", name, NoSeg, body) IN
      /\ Route(variant, r) = "postCollection"
      /\ IF collectionNameParam(variant, name) # "next"
         THEN Reply(r, ParamReply(variant, name), ParamOps(variant)) /\ NoWrite
         ELSE IF IsEmptyObject(body)
         THEN Reply(r, Fail(400, "Request body cannot be empty.", FALSE), ParamOps(variant))
              /\ NoWrite
         ELSE IF InsertThrows(name, body)
         THEN Reply(r, Fail(500, "Error creating document in collection", TRUE),
                    ParamOps(variant) \cup {"insertOne"})
              /\ NoWrite
         ELSE /\ CanWrite
              /\ "_id" \notin DOMAIN body => nextOid <= MaxOid
              /\ Reply(r, Ok(200, <<>>, InsertedId(body)), ParamOps(variant) \cup {"insertOne"})
              /\ db' = [db EXCEPT ![name] = InsertOne(name, body)]
              /\ colls' = colls \cup {name}
              /\ nextOid' = IF "_id" \in DOMAIN body THEN nextOid ELSE nextOid + 1
              /\ issued' = issued \cup {InsertedId(body)}
              /\ writes' = writes + 1
      /\ UNCHANGED variant

\* DELETE /collections/:collectionName/:id
DeleteById ==
    \E name \in CollNames, id \in WireIds :
      LET r == Request("DELETE", "collections", name, id, EmptyBody)
          valid == ObjectIdIsValid(id)
          oid == IF valid THEN ObjectId(id) ELSE NoId
          k == IndexOf(name, oid)
      IN
      /\ Route(variant, r) = "deleteById"
      /\ IF collectionNameParam(variant, name) # "next"
         THEN Reply(r, ParamReply(variant, name), ParamOps(variant)) /\ NoWrite
         ELSE IF ~valid
         THEN Reply(r, Fail(500, "Error deleting document with ID", TRUE), ParamOps(variant))
              /\ NoWrite
         ELSE IF k = 0
         THEN Reply(r, Fail(404, "Document not found in collection.", FALSE),
                    ParamOps(variant) \cup {"deleteOne"})
              /\ NoWrite
         ELSE /\ CanWrite
              /\ Reply(r, Ok(200, <<>>, NoId), ParamOps(variant) \cup {"deleteOne"})
              /\ db' = [db EXCEPT ![name] = DeleteOne(name, oid)]
              /\ writes' = writes + 1
              /\ UNCHANGED <<colls, nextOid, issued>>
      /\ UNCHANGED variant

\* PUT /collections/:collectionName/:id
PutById ==
    \E name \in CollNames, id \in WireIds :
      LET valid == ObjectIdIsValid(id)
          oid == IF valid THEN ObjectId(id) ELSE NoId
          k == IndexOf(name, oid)
      IN
      \E body \in DocBodies :
      LET r == Request("PUT", "collections", name, id, body) IN
      /\ Route(variant, r) = "putById"
      /\ IF collectionNameParam(variant, name) # "next"
         THEN Reply(r, ParamReply(variant, name), ParamOps(variant)) /\ NoWrite
         ELSE IF ~valid
         THEN Reply(r, Fail(500, "Error updating document with ID", TRUE), ParamOps(variant))
              /\ NoWrite
         ELSE IF IsEmptyObject(body)
         THEN Reply(r, Fail(400, "Request body cannot be empty.", FALSE), ParamOps(variant))
              /\ NoWrite
         ELSE IF UpdateThrows(name, oid, body)
         THEN Reply(r, Fail(500, "Error updating document with ID", TRUE),
                    ParamOps(variant) \cup {"updateOne"})
              /\ NoWrite
         ELSE IF k = 0
         THEN Reply(r, Fail(404, "Document not found in collection.", FALSE),
                    ParamOps(variant) \cup {"updateOne"})
              /\ NoWrite
         ELSE /\ UpdateOne(name, oid, body) # db[name] => CanWrite
              /\ Reply(r, Ok(200, <<>>, NoId), ParamOps(variant) \cup {"updateOne"})
              /\ db' = [db EXCEPT ![name] = UpdateOne(name, oid, body)]
              /\ writes' = IF db' = db THEN writes ELSE writes + 1
              /\ UNCHANGED <<colls, nextOid, issued>>
      /\ UNCHANGED variant

\* GET /lessons
GetLessons ==
    LET r == Request("GET", "lessons", "", NoSeg, EmptyBody) IN
    /\ Route(variant, r) = "getLessons"
    /\ IF ~HandleBound(variant)
       THEN Reply(r, Fail(500, "Failed to fetch lessons.", FALSE), {})
       ELSE Reply(r, Ok(200, db["lessons"], NoId), {"find"})
    /\ NoWrite
    /\ UNCHANGED variant

\* the check written on presence ("name" in order) instead of truthiness
OrdersInvalid_presence(order) ==
    ~({"name", "phone", "lessonIDs", "spaces"} \subseteq DOMAIN order)

\* !order.name || !order.phone || !order.lessonIDs || !order.spaces
OrdersInvalid(order) ==
    \/ ~Truthy(order, "name")
    \/ ~Truthy(order, "phone")
    \/ ~Truthy(order, "lessonIDs")
    \/ ~Truthy(order, "spaces")

\* POST /orders
PostOrders ==
    \E body \in OrdersBodies :
      LET r == Request("POST", "orders", "", NoSeg, body) IN
      /\ Route(variant, r) = "postOrders"
      /\ IF OrdersInvalid(body)
         THEN Reply(r, Fail(400, "Invalid order format.", FALSE), {}) /\ NoWrite
         ELSE IF ~HandleBound(variant)
         THEN Reply(r, Fail(500, "Failed to create order.", FALSE), {}) /\ NoWrite
         ELSE IF InsertThrows("orders", body)
         THEN Reply(r, Fail(500, "Failed to create order.", FALSE), {"insertOne"}) /\ NoWrite
         ELSE /\ CanWrite
              /\ "_id" \notin DOMAIN body => nextOid <= MaxOid
              /\ Reply(r, Ok(200, <<>>, InsertedId(body)), {"insertOne"})
              /\ db' = [db EXCEPT !["orders"] = InsertOne("orders", body)]
              /\ colls' = colls \cup {"orders"}
              /\ nextOid' = IF "_id" \in DOMAIN body THEN nextOid ELSE nextOid + 1
              /\ issued' = issued \cup {InsertedId(body)}
              /\ writes' = writes + 1
      /\ UNCHANGED variant

\* PUT /lessons/:id; an empty $set is refused by some server versions and a
\* no-op for others (emptySetThrows)
PutLessons ==
    \E id \in WireIds :
      LET valid == ObjectIdIsValid(id)
          oid == IF valid THEN ObjectId(id) ELSE NoId
          k == IndexOf("lessons", oid)
      IN
      \E body \in DocBodies, emptySetThrows \in BOOLEAN :
      LET r == Request("PUT", "lessons", "", id, body)
          modifiedCount == IF k # 0 /\ UpdateOne("lessons", oid, body) # db["lessons"]
                           THEN 1 ELSE 0
      IN
      /\ Route(variant, r) = "putLessons"
      /\ IF ~valid \/ ~HandleBound(variant)
         THEN Reply(r, Fail(500, "Failed to update lesson.", FALSE), {}) /\ NoWrite
         ELSE IF (IsEmptyObject(body) /\ emptySetThrows) \/ UpdateThrows("lessons", oid, body)
         THEN Reply(r, Fail(500, "Failed to update lesson.", FALSE), {"updateOne"}) /\ NoWrite
         ELSE IF modifiedCount = 0
         THEN Reply(r, Fail(404, "Lesson not found or no changes applied.", FALSE),
                    {"updateOne"})
              /\ NoWrite
         ELSE /\ CanWrite
              /\ Reply(r, Ok(200, <<>>, NoId), {"updateOne"})
              /\ db' = [db EXCEPT !["lessons"] = UpdateOne("lessons", oid, body)]
              /\ writes' = writes + 1
              /\ UNCHANGED <<colls, nextOid, issued>>
      /\ UNCHANGED variant

\* !name || !phone || !address || !Array.isArray(lessons)
OrderInvalid(body) ==
    \/ ~Truthy(body, "name")
    \/ ~Truthy(body, "phone")
    \/ ~Truthy(body, "address")
    \/ ~IsArray(body, "lessons")

\* { name, phone, address, lessons, date: new Date() }
OrderRecord(body) ==
    [f \in {"name", "phone", "address", "lessons", "date"} |->
        IF f = "date" THEN DateNow ELSE body[f]]

\* POST /order
PostOrder ==
    \E body \in OrderBodies :
      LET r == Request("POST", "order", "", NoSeg, body) IN
      /\ Route(variant, r) = "postOrder"
      /\ IF OrderInvalid(body)
         THEN Reply(r, Fail(400, "Invalid order format.", FALSE), {}) /\ NoWrite
         ELSE /\ CanWrite
              /\ nextOid <= MaxOid
              /\ Reply(r, Ok(201, <<>>, Oid(nextOid)), {"insertOne"})
              /\ db' = [db EXCEPT !["orders"] = InsertOne("orders", OrderRecord(body))]
              /\ colls' = colls \cup {"orders"}
              /\ nextOid' = nextOid + 1
              /\ issued' = issued \cup {Oid(nextOid)}
              /\ writes' = writes + 1
      /\ UNCHANGED variant

\* PUT /order/:id
PutOrder ==
    \E id \in WireIds :
      LET valid == ObjectIdIsValid(id)
          oid == IF valid THEN ObjectId(id) ELSE NoId
          k == IndexOf("orders", oid)
      IN
      \E body \in OrderBodies :
      LET r == Request("PUT", "order", "", id, body) IN
      /\ Route(variant, r) = "putOrder"
      /\ IF OrderInvalid(body)
         THEN Reply(r, Fail(400, "Invalid order data. Ensure all fields are provided.", FALSE), {})
              /\ NoWrite
         ELSE IF ~valid
         THEN Reply(r, Fail(500, "Failed to update the order.", FALSE), {}) /\ NoWrite
         ELSE IF k = 0
         THEN Reply(r, Fail(404, "Order not found.", FALSE), {"updateOne"}) /\ NoWrite
         ELSE /\ UpdateOne("orders", oid, OrderRecord(body)) # db["orders"] => CanWrite
              /\ Reply(r, Ok(200, <<>>, NoId), {"updateOne"})
              /\ db' = [db EXCEPT !["orders"] = UpdateOne("orders", oid, OrderRecord(body))]
              /\ writes' = IF db' = db THEN writes ELSE writes + 1
              /\ UNCHANGED <<colls, nextOid, issued>>
      /\ UNCHANGED variant

\* a request no registered route matches: Express answers 404 itself and no
\* handler or parameter callback of the application runs
NoRoute ==
    \E r \in ProbeRequests :
      /\ Route(variant, r) = "none"
      /\ Reply(r, Fail(404, "Cannot route request.", FALSE), {})
      /\ NoWrite
      /\ UNCHANGED variant

Next ==
    \/ GetCollection
    \/ GetLimited
    \/ GetById
    \/ PostCollection
    \/ DeleteById
    \/ PutById
    \/ GetLessons
    \/ PostOrders
    \/ PutLessons
    \/ PostOrder
    \/ PutOrder
    \/ NoRoute

Spec == Init /\ [][Next]_vars

(* ------------------------ requests in flight --------------------------- *)
\* Each handler runs to its await in one turn of the event loop, the store
\* then executes updateOne at a moment of its own, and the handler resumes
\* with the result.  Several requests can be between these steps at once.

Frame == UNCHANGED <<variant, colls, nextOid, issued, writes, req, res, ops>>

\* PUT /collections/:collectionName/:id up to await updateOne
StartPutById(c) ==
    \E id \in WireIds, body \in ConcBodies :
      LET r == Request("PUT", "collections", "lessons", id, body) IN
      /\ inflight[c].phase = "idle"
      /\ Route(variant, r) = "putById"
      /\ inflight' = [inflight EXCEPT ![c] =
            IF collectionNameParam(variant, r.name) # "next"
            THEN Pending("done", "putById", r.name, id, body, FALSE, 0, 0,
                         ParamReply(variant, r.name).status)
            ELSE IF ~ObjectIdIsValid(id)
            THEN Pending("done", "putById", r.name, id, body, TRUE, 0, 0, 500)
            ELSE IF IsEmptyObject(body)
            THEN Pending("done", "putById", r.name, id, body, FALSE, 0, 0, 400)
            ELSE Pending("await", "putById", r.name, id, body, FALSE, 0, 0, 0)]
      /\ UNCHANGED <<db, applied>>
      /\ Frame

\* PUT /lessons/:id up to await updateOne
StartPutLessons(c) ==
    \E id \in WireIds, body \in ConcBodies :
      LET r == Request("PUT", "lessons", "", id, body) IN
      /\ inflight[c].phase = "idle"
      /\ Route(variant, r) = "putLessons"
      /\ inflight' = [inflight EXCEPT ![c] =
            IF ~ObjectIdIsValid(id) \/ ~HandleBound(variant)
            THEN Pending("done", "putLessons", "lessons", id, body, TRUE, 0, 0, 500)
            ELSE Pending("await", "putLessons", "lessons", id, body, FALSE, 0, 0, 0)]
      /\ UNCHANGED <<db, applied>>
      /\ Frame

\* the store executes one updateOne({_id}, {$set: body}) as a single step
StoreUpdate(c) ==
    \E emptySetThrows \in BOOLEAN :
      LET p == inflight[c]
          oid == ObjectId(p.id)
          k == IndexOf(p.name, oid)
          after == UpdateOne(p.name, oid, p.body)
      IN
      /\ p.phase = "await"
      /\ IF (IsEmptyObject(p.body) /\ emptySetThrows) \/ UpdateThrows(p.name, oid, p.body)
         THEN /\ inflight' = [inflight EXCEPT ![c] =
                    Pending("applied", p.handler, p.name, p.id, p.body, TRUE, 0, 0, 0)]
              /\ UNCHANGED <<db, applied>>
         ELSE /\ inflight' = [inflight EXCEPT ![c] =
                    Pending("applied", p.handler, p.name, p.id, p.body, FALSE,
                            IF k # 0 THEN 1 ELSE 0,
                            IF after # db[p.name] THEN 1 ELSE 0, 0)]
              /\ db' = [db EXCEPT ![p.name] = after]
              /\ applied' = IF k # 0
                            THEN Append(applied, [client |-> c, id |-> oid, body |-> p.body])
                            ELSE applied
      /\ Frame

\* PUT /collections/:collectionName/:id after await updateOne
FinishPutById(c) ==
    LET p == inflight[c] IN
    /\ p.phase = "applied"
    /\ p.handler = "putById"
    /\ inflight' = [inflight EXCEPT ![c].phase = "done",
                                    ![c].status = IF p.threw THEN 500
                                                  ELSE IF p.matched = 0 THEN 404
                                                  ELSE 200]
    /\ UNCHANGED <<db, applied>>
    /\ Frame

\* PUT /lessons/:id after await updateOne
FinishPutLessons(c) ==
    LET p == inflight[c] IN
    /\ p.phase = "applied"
    /\ p.handler = "putLessons"
    /\ inflight' = [inflight EXCEPT ![c].phase = "done",
                                    ![c].status = IF p.threw THEN 500
                                                  ELSE IF p.modified = 0 THEN 404
                                                  ELSE 200]
    /\ UNCHANGED <<db, applied>>
    /\ Frame

NextConc ==
    \E c \in Clients :
      \/ StartPutById(c)
      \/ StartPutLessons(c)
      \/ StoreUpdate(c)
      \/ FinishPutById(c)
      \/ FinishPutLessons(c)

\* the iterations that serve one of the two update routes
InitConc == Init /\ variant \in {1, 2, 3}

SpecConc == InitConc /\ [][NextConc]_vars

(* ------------------------------ properties ----------------------------- *)
\* store operations that read or write documents
DataOps == {"find", "findOne", "insertOne", "updateOne", "deleteOne"}

\* C1: a request to a /collections/C... route whose collection C does not
\* exist is answered 404 and issues no find, insert, update or delete.
C1_MissingCollectionIs404 ==
    [][(req'.root = "collections" /\ req'.name \notin colls)
          => (res'.status = 404 /\ ops' \cap DataOps = {})]_vars

\* C2: GET, PUT and DELETE on /collections/:collectionName/:id with an
\* identifier that is not a valid ObjectId encoding are answered 400 and
\* issue no findOne, updateOne or deleteOne.
C2_MalformedIdIs400 ==
    (Route(variant, req) \in {"getById", "putById", "deleteById"}
        /\ ~ObjectIdIsValid(req.id))
      => (res.status = 400 /\ ops \cap {"findOne", "updateOne", "deleteOne"} = {})

\* C3: a 500 response carries only a fixed message, never text taken from
\* the caught exception.
C3_NoErrorTextIn500 == res.status = 500 => ~res.detail

\* C4: PUT /lessons/:id with a non-empty body on a lesson that exists is
\* never answered 404 (404 is kept for identifiers no lesson has, so that
\* repeating a PUT is answered like the first one).
C4_Put404OnlyWhenAbsent ==
    [][(/\ req'.method = "PUT" /\ req'.root = "lessons" /\ req'.id # NoSeg
        /\ ~IsEmptyObject(req'.body)
        /\ ObjectIdIsValid(req'.id)
        /\ IndexOf("lessons", ObjectId(req'.id)) # 0)
          => res'.status # 404]_vars

\* C5: no stored lesson has a negative spaces value.
C5_SpacesNeverNegative ==
    \A i \in 1..Len(db["lessons"]) :
        "spaces" \in DOMAIN db["lessons"][i] => db["lessons"][i]["spaces"][2] >= 0

\* the three order-writing handlers and the fields each one requires
OrderHandlers == {"postOrders", "postOrder", "putOrder"}

RequiredFields(r) ==
    IF r.root = "orders" THEN {"name", "phone", "lessonIDs", "spaces"}
    ELSE {"name", "phone", "address", "lessons"}

OrdersUnchanged == db'["orders"] = db["orders"]

\* C6 as stated: an order write is answered 400 and writes nothing exactly
\* when a required field is absent from the body.
C6_RejectedIffFieldAbsent ==
    [][Route(variant, req') \in OrderHandlers
          => ((res'.status = 400 /\ OrdersUnchanged)
                <=> ~(RequiredFields(req') \subseteq DOMAIN req'.body))]_vars

\* a required field is absent or falsy, or lessons is not an array
FieldRejected(r) ==
    \/ \E f \in RequiredFields(r) : ~Truthy(r.body, f)
    \/ r.root = "order" /\ ~IsArray(r.body, "lessons")

\* C6 (amended): an order write is answered 400 with a fixed message and
\* writes nothing exactly when a required field is absent or holds a falsy
\* value (empty string, 0, false, null), or, for /order, lessons is not an
\* array; every other body passes validation.
C6_RejectedIffFieldFalsy ==
    [][Route(variant, req') \in OrderHandlers
          => ((res'.status = 400 /\ ~res'.detail /\ res'.docs = <<>> /\ OrdersUnchanged)
                <=> FieldRejected(req'))]_vars

\* an order naming every required field was rejected for a falsy value
C6_Witness ==
    /\ Route(variant, req) \in OrderHandlers
    /\ RequiredFields(req) \subseteq DOMAIN req.body
    /\ res.status = 400

\* C7: the identifier of a created document is not the one the request body
\* carried and was never issued before.
C7_IdsAreStoreAssigned ==
    [][(req'.method = "POST" /\ res'.status \in {200, 201} /\ res'.id # NoId)
          => /\ res'.id \notin issued
             /\ "_id" \in DOMAIN req'.body => res'.id # req'.body["_id"]]_vars

\* new is old with exactly the fields of body set to the values of body
Merged(old, new, body) ==
    /\ DOMAIN new = DOMAIN old \cup DOMAIN body
    /\ \A f \in DOMAIN body : new[f] = body[f]
    /\ \A f \in DOMAIN old \ DOMAIN body : new[f] = old[f]

\* the PUT just handled changed document k of collection c by merging the
\* body into it and changed nothing else
PutEffect(c, k) ==
    /\ res'.status = 200
    /\ Len(db'[c]) = Len(db[c])
    /\ Merged(db[c][k], db'[c][k], req'.body)
    /\ \A i \in 1..Len(db[c]) : i # k => db'[c][i] = db[c][i]
    /\ \A c2 \in CollNames : c2 # c => db'[c2] = db[c2]

\* the request just handled went to handler h with a well-formed identifier
\* of a document that existed
HitsDocument(h) ==
    /\ Route(variant, req') = h
    /\ ObjectIdIsValid(req'.id)
    /\ IndexOf(req'.name, ObjectId(req'.id)) # 0

\* GET by id returns the stored document with that identifier
GetReturnsStored ==
    HitsDocument("getById")
      => /\ res'.status = 200
         /\ res'.docs = <<db[req'.name][IndexOf(req'.name, ObjectId(req'.id))]>>
         /\ res'.docs[1]["_id"] = ObjectId(req'.id)

\* C8 as stated: PUT /collections/:collectionName/:id on an existing
\* document with any non-empty body sets exactly the fields of the body and
\* leaves every other field and document unchanged; GET by the same
\* identifier returns the stored (merged) document.
C8_PutMergesAnyBody ==
    [][/\ (HitsDocument("putById") /\ ~IsEmptyObject(req'.body))
            => PutEffect(req'.name, IndexOf(req'.name, ObjectId(req'.id)))
       /\ GetReturnsStored]_vars

\* C8 (amended): the same for every non-empty body that does not name _id.
C8_PutMergesFields ==
    [][/\ (HitsDocument("putById") /\ ~IsEmptyObject(req'.body)
              /\ "_id" \notin DOMAIN req'.body)
            => PutEffect(req'.name, IndexOf(req'.name, ObjectId(req'.id)))
       /\ GetReturnsStored]_vars

\* a PUT on the generic route has merged a body into an existing document
C8_Witness ==
    /\ Route(variant, req) = "putById"
    /\ res.status = 200
    /\ \E i \in 1..Len(db[req.name]) :
          /\ db[req.name][i]["_id"] = ObjectId(req.id)
          /\ \A f \in DOMAIN req.body : db[req.name][i][f] = req.body[f]
          /\ "subject" \in DOMAIN db[req.name][i]

\* the documents of a sequence, as a set
Range(s) == {s[i] : i \in 1..Len(s)}

\* C9: GET /collections/C on an existing collection C returns 200 with
\* exactly the documents stored in C when there are some, and 404 when
\* there are none.
C9_ListAllOr404 ==
    (Route(variant, req) = "getCollection" /\ req.name \in colls)
      => IF db[req.name] = <<>>
         THEN res.status = 404 /\ res.docs = <<>>
         ELSE /\ res.status = 200
              /\ Len(res.docs) = Len(db[req.name])
              /\ Range(res.docs) = Range(db[req.name])

\* an existing collection without documents was listed
C9_Witness ==
    /\ Route(variant, req) = "getCollection"
    /\ req.name \in colls
    /\ db[req.name] = <<>>
    /\ res.status = 404

\* C10: GET /collections/:collectionName/limited is handled by the limited
\* handler (never as an identifier lookup), returns at most 3 documents of
\* the collection in non-increasing order of price, and 404 when the
\* collection has no documents.
C10_LimitedTop3 ==
    (variant = 3 /\ req.method = "GET" /\ req.root = "collections" /\ req.id = Limited)
      => /\ Route(variant, req) = "getLimited"
         /\ ops = {"find"}
         /\ IF db[req.name] = <<>>
            THEN res.status = 404
            ELSE /\ res.status = 200
                 /\ Len(res.docs) >= 1
                 /\ Len(res.docs) <= 3
                 /\ Range(res.docs) \subseteq Range(db[req.name])
                 /\ \A i, j \in 1..Len(res.docs) :
                       i < j => ~KeyLess(PriceKey(res.docs[i]), PriceKey(res.docs[j]))

\* a collection of more than three documents was cut to three
C10_Witness ==
    /\ Route(variant, req) = "getLimited"
    /\ Len(db[req.name]) > 3
    /\ res.status = 200
    /\ Len(res.docs) = 3

\* C11: POST /collections/:collectionName with an empty JSON object (the
\* body express.json() also leaves for a missing body) is answered 400,
\* issues no insert and leaves the document count of every collection as
\* it was.
C11_EmptyPostIs400 ==
    [][(Route(variant, req') = "postCollection" /\ DOMAIN req'.body = {})
          => /\ res'.status = 400
             /\ "insertOne" \notin ops'
             /\ \A c \in CollNames : Len(db'[c]) = Len(db[c])
             /\ colls' = colls]_vars

\* an empty body was posted to a collection and refused
C11_Witness ==
    /\ Route(variant, req) = "postCollection"
    /\ DOMAIN req.body = {}
    /\ res.status = 400

\* C12: DELETE /collections/:collectionName/:id with a well-formed
\* identifier answers 404 and leaves the collection as it was when no
\* document has the identifier, and answers 200 and removes exactly the
\* document with the identifier when there is one.
C12_DeleteExactlyOne ==
    [][(Route(variant, req') = "deleteById" /\ ObjectIdIsValid(req'.id))
          => LET c == req'.name
                 hit == {d \in Range(db[c]) : d["_id"] = ObjectId(req'.id)}
             IN  /\ \A c2 \in CollNames : c2 # c => db'[c2] = db[c2]
                 /\ IF hit = {}
                    THEN res'.status = 404 /\ db'[c] = db[c]
                    ELSE /\ res'.status = 200
                         /\ Cardinality(hit) = 1
                         /\ Len(db'[c]) = Len(db[c]) - 1
                         /\ Range(db'[c]) = Range(db[c]) \ hit]_vars

\* a document was deleted from a collection that keeps other documents
C12_Witness ==
    /\ Route(variant, req) = "deleteById"
    /\ res.status = 200
    /\ Len(db[req.name]) >= 2
    /\ \A d \in Range(db[req.name]) : d["_id"] # ObjectId(req.id)

\* positions in applied of the updates of document id that name field f
Writers(id, f) ==
    {j \in 1..Len(applied) : applied[j].id = id /\ f \in DOMAIN applied[j].body}

\* the fields of document i of the lessons collection as the applied
\* updates leave them: the value of the last update that named the field,
\* the initial value when no update named it
LastWritten(i, f) ==
    LET id == InitialLessons[i]["_id"]
        w == Writers(id, f)
    IN  IF w = {} THEN InitialLessons[i][f]
        ELSE applied[CHOOSE j \in w : \A j2 \in w : j2 <= j].body[f]

\* C13: with several update requests on the same document in flight, in
\* every interleaving each update reaches the store as one merge, so that
\* each field of the document holds the value of the last applied update
\* that named it, and a field no later update named keeps the value of
\* the update (or the initial document) that wrote it.
C13_LastWriteWins ==
    /\ Len(db["lessons"]) = Len(InitialLessons)
    /\ \A i \in 1..Len(InitialLessons) :
          /\ DOMAIN db["lessons"][i] =
                DOMAIN InitialLessons[i]
                   \cup UNION {DOMAIN applied[j].body : j \in
                                  {n \in 1..Len(applied) :
                                      applied[n].id = InitialLessons[i]["_id"]}}
          /\ \A f \in DOMAIN db["lessons"][i] :
                db["lessons"][i][f] = LastWritten(i, f)

\* two requests were in flight together, both were applied to the same
\* document, one naming a field the earlier one did not, and the handlers
\* of both have yet to resume
C13_Witness ==
    /\ Len(applied) = 2
    /\ applied[1].id = applied[2].id
    /\ applied[1].client # applied[2].client
    /\ DOMAIN applied[1].body # DOMAIN applied[2].body
    /\ DOMAIN applied[1].body # {}
    /\ DOMAIN applied[2].body # {}
    /\ inflight[applied[1].client].phase = "applied"
    /\ inflight[applied[2].client].phase = "applied"
====
